---- MODULE Spec2Model ----
(***************************************************************************)
(* Best Ball co-draft explorer: the draft model builder (get_data, slot),  *)
(* the two analyzers (next_pick_distribution, co_draft_multiple) of        *)
(* helpers.py and the Streamlit session of main.py.                        *)
(*                                                                         *)
(* A DataFrame is [columns |-> set of column names, rows |-> sequence of   *)
(* records over those columns]; a row's index label is its position        *)
(* (pandas counts from 0, the model from 1).  Pick numbers are integers:   *)
(* missing (NaN) and fractional values of OVERALLPICKNUM are outside the   *)
(* modelled domain.  A float percentage is held as the exact fraction      *)
(* [num, den] in lowest terms; IEEE rounding is not modelled.              *)
(***************************************************************************)
EXTENDS Integers, Sequences, FiniteSets, TLC

VARIABLES raw, df, pc, call, result

vars == <<raw, df, pc, call, result>>

\* helpers.py:9
NUM_TEAMS == 12

----------------------------------------------------------------------------
(* Bounds of the explored inputs *)

\* longest drafts.csv / uploaded file (rows) of the sampled datasets
MaxRows == 3
\* longest player list handed to co_draft_multiple
MaxLen == 2
\* rounds of the complete draft instances
MaxRounds == 3
\* single-record datasets carry a pick number in -MaxPick..MaxPick
MaxPick == 40

\* players named in the sampled datasets, and a name no dataset contains
Players == {"A", "B"}
Unknown == "Z"
\* (SNAKEDRAFTNUM, OVERALLPICKNUM) of the sampled records: 1, 24, 25 are the
\* first three picks of the team at slot 1, 13 is a pick of the team at slot 12
SampleKeys == {<<1, 1>>, <<1, 13>>, <<1, 24>>, <<1, 25>>, <<2, 1>>}

RawColumns == {"SNAKEDRAFTNUM", "OVERALLPICKNUM", "PLAYERNAME"}
InfoColumns == {"Name", "Team", "Position", "ID"}
DerivedColumns == {"round", "pick_in_round", "draft_slot"}

\* data/player_info.csv: the reference table (names unique); "B" has no entry
player_info ==
    << [Name |-> "A", Team |-> "DET", Position |-> "WR", ID |-> "id-1"] >>

Null == "null"

----------------------------------------------------------------------------
(* Sequence helpers *)

Range(s) == {s[i] : i \in 1..Len(s)}

RECURSIVE Flatten(_)
Flatten(ss) ==
    IF ss = <<>> THEN <<>> ELSE Head(ss) \o Flatten(Tail(ss))

RECURSIVE Gcd(_, _)
Gcd(a, b) == IF b = 0 THEN a ELSE Gcd(b, a % b)

\* the float n / d, d > 0, as an exact fraction in lowest terms
Frac(n, d) == [num |-> n \div Gcd(n, d), den |-> d \div Gcd(n, d)]

----------------------------------------------------------------------------
(* Draft model builder: helpers.py get_data, slot *)

ceil_as_floor(a, b) == a \div b

\* np.ceil(a / b).astype(int) for b > 0
Ceil(a, b) == -((-a) \div b)

slot_reversed_always(row) == NUM_TEAMS - row.pick_in_round + 1

slot_off_by_one(row) ==
    IF row.round % 2 = 1
    THEN row.pick_in_round
    ELSE NUM_TEAMS - row.pick_in_round

\* helpers.py slot
slot(row) ==
    IF row.round % 2 = 1
    THEN row.pick_in_round
    ELSE NUM_TEAMS - row.pick_in_round + 1

\* drafts.merge(player_info[...], left_on="PLAYERNAME", right_on="Name",
\* how="left"): one output row per match, in left order; an unmatched left
\* row is kept with null metadata
merge_player_info(rows) ==
    LET matches(r) == SelectSeq(player_info, LAMBDA i : i.Name = r.PLAYERNAME)
        joined(r) ==
            IF matches(r) = <<>>
            THEN << r @@ [Name |-> Null, Team |-> Null,
                          Position |-> Null, ID |-> Null] >>
            ELSE [k \in 1..Len(matches(r)) |-> r @@ matches(r)[k]]
    IN  Flatten([k \in 1..Len(rows) |-> joined(rows[k])])

with_round(r) ==
    r @@ [round |-> Ceil(r.OVERALLPICKNUM, NUM_TEAMS)]

with_pick_in_round(r) ==
    r @@ [pick_in_round |-> r.OVERALLPICKNUM - (r.round - 1) * NUM_TEAMS]

with_draft_slot(r) == r @@ [draft_slot |-> slot(r)]

\* helpers.py get_data, from the read drafts.csv on
get_data(drafts) ==
    LET merged == merge_player_info(drafts.rows)
    IN  [columns |-> drafts.columns \cup InfoColumns \cup DerivedColumns,
         rows |-> [k \in 1..Len(merged) |->
                     with_draft_slot(with_pick_in_round(with_round(merged[k])))]]

----------------------------------------------------------------------------
(* Next-pick analyzer: helpers.py next_pick_distribution *)

NextPickColumns == {"PLAYERNAME", "SNAKEDRAFTNUM", "draft_slot", "OVERALLPICKNUM"}

KeyError == [kind |-> "KeyError"]
ValueError == [kind |-> "ValueError"]

\* pd.DataFrame(columns=["next_player", "count", "pct"])
EmptyDist == [kind |-> "dist", table |-> <<>>]

\* df.loc[df["PLAYERNAME"] == player, [...]].reset_index(drop=False).rename(...)
occurrences(rows, player) ==
    LET idx == SelectSeq([i \in 1..Len(rows) |-> i],
                         LAMBDA i : rows[i].PLAYERNAME = player)
    IN  [k \in 1..Len(idx) |->
           [occ_index |-> idx[k],
            SNAKEDRAFTNUM |-> rows[idx[k]].SNAKEDRAFTNUM,
            draft_slot |-> rows[idx[k]].draft_slot,
            pick_num |-> rows[idx[k]].OVERALLPICKNUM]]

\* occ.merge(df[[...]], on=["SNAKEDRAFTNUM", "draft_slot"], how="left"):
\* for each occurrence in order, the rows of df with its key, in df's order
merge_candidates(occ, rows) ==
    LET matches(o) ==
            SelectSeq(rows, LAMBDA r : /\ r.SNAKEDRAFTNUM = o.SNAKEDRAFTNUM
                                       /\ r.draft_slot = o.draft_slot)
        joined(o) ==
            [k \in 1..Len(matches(o)) |->
               [occ_index |-> o.occ_index,
                pick_num |-> o.pick_num,
                candidate_pick |-> matches(o)[k].OVERALLPICKNUM,
                next_player |-> matches(o)[k].PLAYERNAME]]
    IN  Flatten([k \in 1..Len(occ) |-> joined(occ[k])])

later_or_same_pick(m) == m.candidate_pick >= m.pick_num

\* merged["candidate_pick"] > merged["pick_num"]
later_pick(m) == m.candidate_pick > m.pick_num

\* merged[...]: the kept rows, each with its index label in merged
filter_later(merged) ==
    SelectSeq([k \in 1..Len(merged) |-> merged[k] @@ [label |-> k]], later_pick)

\* filtered.groupby("occ_index")["candidate_pick"].idxmin() for group g: the
\* label of the first row of the group that holds the least candidate_pick
idxmin(filtered, g) ==
    LET grp == SelectSeq(filtered, LAMBDA f : f.occ_index = g)
        lo == CHOOSE c \in {f.candidate_pick : f \in Range(grp)} :
                 \A f \in Range(grp) : c <= f.candidate_pick
    IN  SelectSeq(grp, LAMBDA f : f.candidate_pick = lo)[1].label

\* filtered.loc[idx, "next_player"], one entry per group in ascending occ_index
next_players(filtered) ==
    LET labels == [k \in 1..Len(filtered) |-> filtered[k].occ_index]
        first(k) == \A j \in 1..(k - 1) : labels[j] # labels[k]
        keys == SelectSeq([k \in 1..Len(filtered) |->
                             [g |-> labels[k], first |-> first(k)]],
                          LAMBDA e : e.first)
        at(label) == SelectSeq(filtered, LAMBDA f : f.label = label)[1]
    IN  [k \in 1..Len(keys) |-> at(idxmin(filtered, keys[k].g)).next_player]

Count(s, v) == Cardinality({i \in 1..Len(s) : s[i] = v})

RECURSIVE InsertByCount(_, _)
\* stable insertion into a table sorted by descending count
InsertByCount(sorted, e) ==
    IF sorted = <<>> THEN <<e>>
    ELSE IF Head(sorted).count >= e.count
         THEN <<Head(sorted)>> \o InsertByCount(Tail(sorted), e)
         ELSE <<e>> \o sorted

RECURSIVE SortByCount(_)
SortByCount(t) ==
    IF t = <<>> THEN <<>>
    ELSE InsertByCount(SortByCount(SubSeq(t, 1, Len(t) - 1)), t[Len(t)])

\* next_players.value_counts().rename_axis(...).reset_index(name="count"),
\* then dist["pct"] = dist["count"] / total * 100
value_counts_pct(s) ==
    LET firsts == SelectSeq([k \in 1..Len(s) |-> [v |-> s[k], k |-> k]],
                            LAMBDA e : \A j \in 1..(e.k - 1) : s[j] # e.v)
        counted == [k \in 1..Len(firsts) |->
                      [next_player |-> firsts[k].v,
                       count |-> Count(s, firsts[k].v)]]
        dist == SortByCount(counted)
        total == Len(s)
    IN  [k \in 1..Len(dist) |->
           dist[k] @@ [pct |-> Frac(dist[k].count * 100, total)]]

\* helpers.py next_pick_distribution
next_pick_distribution(d, player) ==
    IF ~(NextPickColumns \subseteq d.columns) THEN KeyError
    ELSE LET occ == occurrences(d.rows, player)
             filtered == filter_later(merge_candidates(occ, d.rows))
         IN  IF occ = <<>> THEN EmptyDist
             ELSE IF filtered = <<>> THEN EmptyDist
             ELSE [kind |-> "dist",
                   table |-> value_counts_pct(next_players(filtered))]

----------------------------------------------------------------------------
(* Co-draft analyzer: helpers.py co_draft_multiple *)

CoDraftColumns == {"PLAYERNAME", "SNAKEDRAFTNUM", "draft_slot"}

\* set(zip(df.loc[mask, "SNAKEDRAFTNUM"], df.loc[mask, "draft_slot"]))
pair_set(rows, player) ==
    {<<rows[i].SNAKEDRAFTNUM, rows[i].draft_slot>> :
        i \in {j \in 1..Len(rows) : rows[j].PLAYERNAME = player}}

intersection_first_only(pair_sets) == pair_sets[1]

intersection_as_union(pair_sets) == UNION Range(pair_sets)

\* set.intersection(*pair_sets)
intersection(pair_sets) ==
    {p \in pair_sets[1] : \A k \in 1..Len(pair_sets) : p \in pair_sets[k]}

pct_as_ratio(num_all, num_first) ==
    IF num_first # 0 THEN Frac(num_all, num_first) ELSE Frac(0, 1)

\* (num_all / num_first * 100) if num_first else 0.0
pct_together(num_all, num_first) ==
    IF num_first # 0 THEN Frac(num_all * 100, num_first) ELSE Frac(0, 1)

co_draft_unguarded(d, players) ==
    IF ~(CoDraftColumns \subseteq d.columns) THEN KeyError
    ELSE [kind |-> "stats", players |-> players, num_first |-> 0, num_all |-> 0,
          pct_together |-> Frac(0, 1), common_pairs |-> {}]

\* helpers.py co_draft_multiple
co_draft_multiple(d, players) ==
    IF players = <<>> THEN ValueError
    ELSE IF ~(CoDraftColumns \subseteq d.columns) THEN KeyError
    ELSE LET pair_sets == [k \in 1..Len(players) |-> pair_set(d.rows, players[k])]
             first_set == pair_sets[1]
             common == intersection(pair_sets)
         IN  [kind |-> "stats",
              players |-> players,
              num_first |-> Cardinality(first_set),
              num_all |-> Cardinality(common),
              pct_together |-> pct_together(Cardinality(common),
                                            Cardinality(first_set)),
              common_pairs |-> common]

----------------------------------------------------------------------------
(* Inputs *)

NoFrame == [columns |-> {}, rows |-> <<>>]
NoCall == [op |-> "none", args |-> <<>>]
NoResult == [kind |-> "none"]

RawRecords ==
    {[SNAKEDRAFTNUM |-> k[1], OVERALLPICKNUM |-> k[2], PLAYERNAME |-> n] :
        k \in SampleKeys, n \in Players}

\* OVERALLPICKNUM is unique within a SNAKEDRAFTNUM
UniquePicks(rows) ==
    \A i, j \in 1..Len(rows) :
        /\ rows[i].SNAKEDRAFTNUM = rows[j].SNAKEDRAFTNUM
        /\ rows[i].OVERALLPICKNUM = rows[j].OVERALLPICKNUM
        => i = j

\* sampled files: up to MaxRows records in any row order
SampledFiles ==
    {[columns |-> RawColumns, rows |-> s] :
        s \in {t \in UNION {[1..n -> RawRecords] : n \in 0..MaxRows} :
                  UniquePicks(t)}}

\* one record whose pick number may be malformed (zero or negative)
SingleRecordFiles ==
    {[columns |-> RawColumns,
      rows |-> << [SNAKEDRAFTNUM |-> 1, OVERALLPICKNUM |-> p,
                   PLAYERNAME |-> "A"] >>] : p \in (-MaxPick)..MaxPick}

\* draft 1 complete through R rounds: picks 1..R*NUM_TEAMS, the player taken
\* at pick p named by p's numeral, rows in pick order or in reverse
CompleteRows(R, reversed) ==
    [k \in 1..(R * NUM_TEAMS) |->
        LET p == IF reversed THEN R * NUM_TEAMS + 1 - k ELSE k
        IN  [SNAKEDRAFTNUM |-> 1, OVERALLPICKNUM |-> p,
             PLAYERNAME |-> ToString(p)]]

CompleteFiles ==
    {[columns |-> RawColumns, rows |-> CompleteRows(R, rev)] :
        R \in 1..MaxRounds, rev \in BOOLEAN}

DraftFiles == SampledFiles \cup SingleRecordFiles \cup CompleteFiles

\* the same files saved with the builder's columns already in them
EnrichedFiles == {get_data(f) : f \in SampledFiles}

PlayerList(d) == {d.rows[i].PLAYERNAME : i \in 1..Len(d.rows)}

\* player lists of the co-draft calls: up to MaxLen names, none repeated
PlayerLists(names) ==
    {l \in UNION {[1..n -> names] : n \in 0..MaxLen} :
        \A i, j \in 1..Len(l) : l[i] = l[j] => i = j}

----------------------------------------------------------------------------
(* helpers.py used as a library: get_data, then any analyzer calls *)

Init ==
    /\ raw \in DraftFiles
    /\ df = NoFrame
    /\ pc = "start"
    /\ call = NoCall
    /\ result = NoResult

GetData ==
    /\ pc = "start"
    /\ df' = get_data(raw)
    /\ pc' = "loaded"
    /\ UNCHANGED <<raw, call, result>>

NextPick ==
    /\ pc = "loaded"
    /\ \E player \in Players \cup {Unknown} \cup PlayerList(df) :
          /\ call' = [op |-> "next_pick_distribution", args |-> <<player>>]
          /\ result' = next_pick_distribution(df, player)
    /\ UNCHANGED <<raw, df, pc>>

CoDraft ==
    /\ pc = "loaded"
    /\ \E players \in PlayerLists(Players \cup {Unknown}) :
          /\ call' = [op |-> "co_draft_multiple", args |-> players]
          /\ result' = co_draft_multiple(df, players)
    /\ UNCHANGED <<raw, df, pc>>

Next == GetData \/ NextPick \/ CoDraft

Spec == Init /\ [][Next]_vars

----------------------------------------------------------------------------
(* main.py: one Streamlit session; every interaction reruns main() *)

\* main.py load_data: the uploaded file as read, no column added
load_data(uploaded_file) == uploaded_file

\* main.py:46-62, the rosters listed for the common pairs
rosters(d, stats) ==
    {[SNAKEDRAFTNUM |-> p[1], draft_slot |-> p[2],
      team_roster |-> SelectSeq([k \in 1..Len(d.rows) |-> d.rows[k]],
                                LAMBDA r : /\ r.SNAKEDRAFTNUM = p[1]
                                           /\ r.draft_slot = p[2])] :
        p \in stats.common_pairs}

shown(d, stats) ==
    IF stats.kind = "stats" THEN stats @@ [rosters |-> rosters(d, stats)]
    ELSE stats

SessionInit ==
    /\ raw \in SampledFiles \cup EnrichedFiles
    /\ df = NoFrame
    /\ pc = "start"
    /\ call = NoCall
    /\ result = NoResult

\* main.py:18-24, the run that follows the upload
MainUpload ==
    /\ pc = "start"
    /\ df' = load_data(raw)
    /\ pc' = "loaded"
    /\ call' = NoCall
    /\ result' = NoResult
    /\ UNCHANGED raw

\* main.py:23-62, the run that follows a click on "Compute Co-Draft Stats"
MainCoDraft ==
    /\ pc = "loaded"
    /\ df' = load_data(raw)
    /\ \E selected_players \in PlayerLists(PlayerList(df')) :
          IF selected_players = <<>>
          THEN /\ call' = NoCall
               /\ result' = [kind |-> "sidebar_error"]
          ELSE /\ call' = [op |-> "co_draft_multiple", args |-> selected_players]
               /\ result' = shown(df', co_draft_multiple(df', selected_players))
    /\ UNCHANGED <<raw, pc>>

\* main.py:23-24, 64-73, the run that follows a click on "Show Next-Pick
\* Distribution"; the selectbox holds a name of player_list
MainNextPick ==
    /\ pc = "loaded"
    /\ df' = load_data(raw)
    /\ \E single_player \in PlayerList(df') :
          /\ call' = [op |-> "next_pick_distribution", args |-> <<single_player>>]
          /\ result' = next_pick_distribution(df', single_player)
    /\ UNCHANGED <<raw, pc>>

SessionNext == MainUpload \/ MainCoDraft \/ MainNextPick

SessionSpec == SessionInit /\ [][SessionNext]_vars

----------------------------------------------------------------------------
(* Vocabulary of the properties *)

Idx(d) == 1..Len(d.rows)
Pick(d, i) == d.rows[i].OVERALLPICKNUM
Name(d, i) == d.rows[i].PLAYERNAME
TeamKey(d, i) == <<d.rows[i].SNAKEDRAFTNUM, d.rows[i].draft_slot>>
TeamKeys(d) == {TeamKey(d, i) : i \in Idx(d)}
KeysOf(d, player) == {TeamKey(d, i) : i \in {j \in Idx(d) : Name(d, j) = player}}

\* rows of the same team in the same draft, picked after row i
Later(d, i) ==
    {j \in Idx(d) : TeamKey(d, j) = TeamKey(d, i) /\ Pick(d, j) > Pick(d, i)}

\* row j is the team's pick that immediately follows row i
IsNextPick(d, i, j) ==
    j \in Later(d, i) /\ \A k \in Later(d, i) : Pick(d, j) <= Pick(d, k)

\* the round that holds pick p: the r with (r-1)*NUM_TEAMS < p <= r*NUM_TEAMS
RoundOf(p) ==
    CHOOSE r \in (-MaxPick - 1)..(MaxPick + MaxRounds + 1) :
        (r - 1) * NUM_TEAMS < p /\ p <= r * NUM_TEAMS

\* the count the distribution table gives a name (0 when it has no row)
TableCount(table, q) ==
    LET hits == {k \in 1..Len(table) : table[k].next_player = q}
    IN  IF hits = {} THEN 0 ELSE table[CHOOSE k \in hits : TRUE].count

TableWellFormed(table) ==
    /\ \A k \in 1..Len(table) : table[k].count >= 1
    /\ \A k, l \in 1..Len(table) :
          table[k].next_player = table[l].next_player => k = l

AllNames(d) == Players \cup {Unknown} \cup PlayerList(d)

\* the rows of d are one draft instance with picks exactly 1..R*NUM_TEAMS
IsCompleteDraft(d, R) ==
    /\ Len(d.rows) = R * NUM_TEAMS
    /\ {Pick(d, i) : i \in Idx(d)} = 1..(R * NUM_TEAMS)
    /\ \A i, j \in Idx(d) : d.rows[i].SNAKEDRAFTNUM = d.rows[j].SNAKEDRAFTNUM

IsNextPickCall == pc = "loaded" /\ call.op = "next_pick_distribution"
IsCoDraftCall == pc = "loaded" /\ call.op = "co_draft_multiple"

----------------------------------------------------------------------------
(* Properties *)

\* C1: every built row with pick number p >= 1 carries round = ceil(p/NUM_TEAMS),
\* pick_in_round = p - (round-1)*NUM_TEAMS and draft_slot = pick_in_round in an
\* odd round, NUM_TEAMS - pick_in_round + 1 in an even one; picks 1..12 get
\* slots 1..12 and picks 13..24 get slots 12..1.
C1_SlotDerivation ==
    pc = "loaded" =>
        \A i \in Idx(df) :
            LET p == Pick(df, i)
                r == RoundOf(p)
                k == p - (r - 1) * NUM_TEAMS
            IN  p >= 1 =>
                  /\ df.rows[i].round = r
                  /\ df.rows[i].pick_in_round = k
                  /\ df.rows[i].draft_slot =
                        IF r % 2 = 1 THEN k ELSE NUM_TEAMS - k + 1
                  /\ p \in 1..12 => df.rows[i].draft_slot = p
                  /\ p \in 13..24 => df.rows[i].draft_slot = 25 - p

C1_Witness ==
    /\ pc = "loaded"
    /\ \E i, j \in Idx(df) :
          /\ Pick(df, i) = 13 /\ df.rows[i].draft_slot = 12
          /\ Pick(df, j) = 24 /\ df.rows[j].draft_slot = 1

\* C2: in a built draft instance with picks exactly 1..R*NUM_TEAMS, the slots
\* of each round are a permutation of 1..NUM_TEAMS: every team-draft key owns
\* exactly one pick in each round, R picks in all.
C2_SlotsPermutePerRound ==
    pc = "loaded" =>
        \A R \in 1..(MaxRounds + 1) :
            IsCompleteDraft(df, R) =>
                LET inRound(r) == {i \in Idx(df) : RoundOf(Pick(df, i)) = r}
                    owned(s) == {i \in Idx(df) : df.rows[i].draft_slot = s}
                IN  /\ \A r \in 1..R :
                          {df.rows[i].draft_slot : i \in inRound(r)} = 1..NUM_TEAMS
                    /\ \A r \in 1..R : \A s \in 1..NUM_TEAMS :
                          Cardinality(inRound(r) \cap owned(s)) = 1
                    /\ \A s \in 1..NUM_TEAMS : Cardinality(owned(s)) = R

C2_Witness ==
    /\ pc = "loaded"
    /\ \E R \in 2..MaxRounds : IsCompleteDraft(df, R)

\* C3: the table of next_pick_distribution gives each name q the number of
\* occurrences of the player whose immediately following pick of the same
\* (draft, slot) is a row naming q; an occurrence with no later pick adds
\* nothing and no other name is listed.
C3_NextPickCounts ==
    IsNextPickCall =>
        /\ result.kind = "dist"
        /\ TableWellFormed(result.table)
        /\ \A k \in 1..Len(result.table) :
              result.table[k].next_player \in PlayerList(df)
        /\ \A q \in AllNames(df) :
              TableCount(result.table, q) =
                 Cardinality({i \in Idx(df) :
                     /\ Name(df, i) = call.args[1]
                     /\ \E j \in Idx(df) :
                           IsNextPick(df, i, j) /\ Name(df, j) = q})

C3_Witness ==
    /\ IsNextPickCall
    /\ \E k \in 1..Len(result.table) : result.table[k].count = 2
    /\ \E i \in Idx(df) :
          Name(df, i) = call.args[1] /\ Cardinality(Later(df, i)) >= 2
    /\ \E i \in Idx(df) : Name(df, i) = call.args[1] /\ Later(df, i) = {}

\* C4: for a non-empty list, co_draft_multiple returns num_first = the number
\* of team-draft keys of players[0], common_pairs = the keys at which every
\* listed player was taken, num_all = their number, and pct_together =
\* num_all / num_first * 100, or 0.0 when num_first = 0.
C4_CoDraftCounts ==
    IsCoDraftCall /\ call.args # <<>> =>
        LET first_keys == KeysOf(df, call.args[1])
            shared == {key \in TeamKeys(df) :
                          \A n \in 1..Len(call.args) : key \in KeysOf(df, call.args[n])}
        IN  /\ result.kind = "stats"
            /\ result.players = call.args
            /\ result.num_first = Cardinality(first_keys)
            /\ result.common_pairs = shared
            /\ result.num_all = Cardinality(shared)
            /\ result.pct_together.den > 0
            /\ IF result.num_first > 0
               THEN result.pct_together.num * result.num_first
                       = 100 * result.num_all * result.pct_together.den
               ELSE result.pct_together.num = 0

C4_Witness ==
    /\ IsCoDraftCall
    /\ Len(call.args) = 2
    /\ result.num_first = 2
    /\ result.num_all = 1
    /\ result.pct_together = [num |-> 50, den |-> 1]

\* C5 as stated: a single-element list always yields pct_together = 100.0 and
\* common_pairs = the player's own key set.
C5_SingleAlwaysHundred ==
    IsCoDraftCall /\ Len(call.args) = 1 =>
        /\ result.pct_together = [num |-> 100, den |-> 1]
        /\ result.common_pairs = KeysOf(df, call.args[1])

\* C5 amended: a single-element list yields common_pairs = the player's own
\* key set, and pct_together = 100.0 when the player has at least one row,
\* 0.0 when the player has none.
C5_SingleHundredWhenPresent ==
    IsCoDraftCall /\ Len(call.args) = 1 =>
        /\ result.kind = "stats"
        /\ result.common_pairs = KeysOf(df, call.args[1])
        /\ result.num_all = result.num_first
        /\ result.pct_together =
              IF call.args[1] \in PlayerList(df)
              THEN [num |-> 100, den |-> 1]
              ELSE [num |-> 0, den |-> 1]

C5_Witness ==
    /\ IsCoDraftCall
    /\ Len(call.args) = 1
    /\ call.args[1] \in PlayerList(df)
    /\ result.num_first >= 2
    /\ result.pct_together = [num |-> 100, den |-> 1]

\* C6: a name with no row in the dataset is no error: next_pick_distribution
\* returns an empty table for it; co_draft_multiple with the name anywhere in
\* the list returns num_all = 0 and no common pair, and num_first = 0 with
\* pct_together = 0.0 when the name comes first.
C6_UnknownPlayerEmpty ==
    /\ IsNextPickCall /\ call.args[1] \notin PlayerList(df) =>
          result = [kind |-> "dist", table |-> <<>>]
    /\ IsCoDraftCall /\ (\E n \in 1..Len(call.args) :
                            call.args[n] \notin PlayerList(df)) =>
          /\ result.kind = "stats"
          /\ result.num_all = 0
          /\ result.common_pairs = {}
          /\ call.args[1] \notin PlayerList(df) =>
                /\ result.num_first = 0
                /\ result.pct_together = [num |-> 0, den |-> 1]

C6_Witness ==
    /\ IsCoDraftCall
    /\ Len(call.args) = 2
    /\ call.args[1] \in PlayerList(df)
    /\ call.args[2] \notin PlayerList(df)
    /\ result.num_first >= 1
    /\ result.num_all = 0

\* C7: a co_draft_multiple call with an empty list ends in the error, with no
\* result bundle, and leaves the file, the dataset and the session position
\* as they were, so later calls see the dataset earlier calls saw.
C7_EmptyListFailsCallOnly ==
    [][call' = [op |-> "co_draft_multiple", args |-> <<>>] =>
          /\ result' = ValueError
          /\ df' = df
          /\ raw' = raw
          /\ pc' = pc]_vars

C7_Witness ==
    /\ IsCoDraftCall
    /\ call.args = <<>>
    /\ result = ValueError
    /\ Len(df.rows) = MaxRows

\* C8 as stated: a file with a pick number below 1 never comes out of the
\* builder as a dataset.
C8_MalformedPickRejected ==
    (\E i \in Idx(raw) : Pick(raw, i) < 1) => pc # "loaded"

\* C9 as stated: whenever an analyzer has been invoked, the dataset it was
\* handed carries the builder's draft_slot column.
C9_AnalyzerOnlyOnBuiltDataset ==
    call.op # "none" => "draft_slot" \in df.columns

\* C10: in a built complete draft of R rounds, an occurrence at pick p in
\* round r < R with pick_in_round k is followed by pick p + 2*(NUM_TEAMS-k) + 1,
\* a pick of round r+1; an occurrence in round R adds no observation.
C10_NextPickInCompleteDraft ==
    IsNextPickCall =>
        \A R \in 1..(MaxRounds + 1) :
            IsCompleteDraft(df, R) =>
                LET k(i) == Pick(df, i) - (RoundOf(Pick(df, i)) - 1) * NUM_TEAMS
                    succ(i) == Pick(df, i) + 2 * (NUM_TEAMS - k(i)) + 1
                    occ == {i \in Idx(df) : Name(df, i) = call.args[1]}
                    inner == {i \in occ : RoundOf(Pick(df, i)) < R}
                IN  /\ \A i \in inner :
                          /\ RoundOf(succ(i)) = RoundOf(Pick(df, i)) + 1
                          /\ \E j \in Idx(df) :
                                Pick(df, j) = succ(i) /\ IsNextPick(df, i, j)
                    /\ \A q \in AllNames(df) :
                          TableCount(result.table, q) =
                             Cardinality({i \in inner :
                                 \E j \in Idx(df) :
                                     Pick(df, j) = succ(i) /\ Name(df, j) = q})

C10_Witness ==
    /\ IsNextPickCall
    /\ IsCompleteDraft(df, MaxRounds)
    /\ call.args[1] = "5"
    /\ result.table = << [next_player |-> "20", count |-> 1,
                          pct |-> [num |-> 100, den |-> 1]] >>

====
